---- MODULE Spec2Model ----
(***************************************************************************)
(* A model of the Fire Claude native messaging host                        *)
(* (native-host/fire_claude_host.py): the frame loop of main(), the        *)
(* dispatcher handle_message(), the query executor query_claude() with the *)
(* subprocess it spawns, the registry active_processes guarded by          *)
(* process_lock, cancel_request(), and the cached locator find_claude().   *)
(*                                                                         *)
(* Python values: a dict is a function from its keys to its values, None   *)
(* is the string NoneVal, an exception is a record [type |-> .., msg |-> ..].*)
(***************************************************************************)
EXTENDS Integers, Sequences, FiniteSets, TLC

VARIABLES
    platform,          \* sys.platform of the interpreter running the host
    _claude_path,      \* the module global caching find_claude's result
    active_processes,  \* the module global: request id -> Popen handle (a pid)
    process_lock,      \* the module global lock: "free" or the thread holding it
    procs,             \* the OS processes spawned so far, by pid: their state
    tempfiles,         \* the names of the temporary prompt files that exist
    warned,            \* the log: the files of the warnings "Failed to clean up temp file"
    eof,               \* whether stdin has reached its end
    pc,                \* where the main thread is in main()
    message,           \* main()'s local: the value read_message returned
    response,          \* the frame the main thread is about to send
    q,                 \* the locals of the running query_claude call
    caught,            \* the exception main()'s except clause has caught
    reads,             \* history: of each frame read from stdin, its kind and requestId
    stdout,            \* of each frame written to stdout, in order, its requestId
    apc,               \* where the second thread is in cancel_request
    atarget,           \* the second thread's targetRequestId
    aresp,             \* the response handle_message returned to the second thread
    wire,              \* the bytes send_message has written that read_message has not read
    sent,              \* history: the objects passed to send_message on that channel
    got                \* history: what read_message returned for each frame of it

vars == <<platform, _claude_path, active_processes, process_lock, procs,
          tempfiles, warned, eof, pc, message, response, q, caught, reads, stdout,
          apc, atarget, aresp, wire, sent, got>>

(***************************************************************************)
(* Bounds of the model.                                                    *)
(***************************************************************************)
\* how many frames the browser sends before it closes the channel
MaxFrames == 2

NoneVal == "<None>"
\* stands for "no requestId" where a request id is expected
NoId == -1
NoQuery == [active |-> FALSE]

\* dict.get(key, default)
Get(d, k, default) == IF k \in DOMAIN d THEN d[k] ELSE default

\* dict.update(other): other's entries win
Update(d, other) ==
    [k \in DOMAIN d \cup DOMAIN other |-> IF k \in DOMAIN other THEN other[k] ELSE d[k]]

\* d[k] = v on a dict
Put(d, k, v) == [x \in DOMAIN d \cup {k} |-> IF x = k THEN v ELSE d[x]]

\* dict.pop(k, None)
\* A faulty pop: the entry stays.
Pop_Keeps(d, k) == d

Pop(d, k) == [x \in DOMAIN d \ {k} |-> d[x]]

\* A faulty slice: the whole text, whatever its length.
Prefix_Whole(s, n) == s

\* s[:n]
Prefix(s, n) == IF Len(s) <= n THEN s ELSE SubSeq(s, 1, n)

(***************************************************************************)
(* find_claude: the executable locator and its cache.                      *)
(***************************************************************************)
Platforms == {"win32", "linux"}

\* the fallback locations find_claude probes with os.path.isfile, in order
WindowsPaths ==
    << "%APPDATA%/npm/claude.cmd",
       "%APPDATA%/npm/claude",
       "%LOCALAPPDATA%/npm/claude.cmd",
       "%LOCALAPPDATA%/npm/claude",
       "%USERPROFILE%/AppData/Roaming/npm/claude.cmd",
       "%USERPROFILE%/AppData/Local/npm/claude.cmd",
       "%APPDATA%/nvm/current/claude.cmd",
       "%USERPROFILE%/scoop/shims/claude.cmd",
       "%ChocolateyInstall%/bin/claude.cmd" >>

UnixPaths ==
    << "/usr/local/bin/claude",
       "/usr/bin/claude",
       "~/.npm-global/bin/claude",
       "~/.nvm/current/bin/claude" >>

\* What the file system answers at one call of find_claude: shutil.which for
\* the two names, and the set of paths for which os.path.isfile is true.  The
\* file system is not under the host's control: every call may see another one.
Envs ==
    { [which |-> [claude |-> NoneVal, cmd |-> NoneVal], files |-> {}],
      [which |-> [claude |-> "/opt/node/bin/claude", cmd |-> NoneVal], files |-> {}],
      [which |-> [claude |-> NoneVal, cmd |-> "C:/nodejs/claude.cmd"],
       files |-> {"~/.nvm/current/bin/claude"}],
      [which |-> [claude |-> NoneVal, cmd |-> NoneVal],
       files |-> {"/usr/bin/claude", "~/.npm-global/bin/claude",
                  "%APPDATA%/npm/claude", "%LOCALAPPDATA%/npm/claude.cmd"}] }

\* for p in possible_paths: if os.path.isfile(p): return p
FirstFile(paths, files) ==
    IF \E i \in 1..Len(paths) : paths[i] \in files
    THEN paths[CHOOSE i \in 1..Len(paths) :
                  /\ paths[i] \in files
                  /\ \A j \in 1..(i - 1) : paths[j] \notin files]
    ELSE NoneVal

\* The search find_claude makes when the cache is unset (lines 46-100).
SearchClaude(plat, env) ==
    IF env.which.claude # NoneVal THEN env.which.claude
    ELSE IF plat = "win32" /\ env.which.cmd # NoneVal THEN env.which.cmd
    ELSE IF plat = "win32" THEN FirstFile(WindowsPaths, env.files)
    ELSE FirstFile(UnixPaths, env.files)

\* A faulty find_claude: it searches on every call and overwrites the cache.
find_claude_NoCache(cache, plat, env) ==
    LET path == SearchClaude(plat, env)
    IN  [ret |-> path, cache |-> path]

\* find_claude() with the global _claude_path = cache: the value returned and
\* the value the global holds afterwards.
find_claude(cache, plat, env) ==
    IF cache # NoneVal
    THEN [ret |-> cache, cache |-> cache]
    ELSE LET path == SearchClaude(plat, env)
         IN  [ret |-> path, cache |-> path]

(***************************************************************************)
(* The frame codec, at the level of whole frames.  A frame on stdin is     *)
(* well-formed JSON text (kind "json", with the JSON value it denotes),    *)
(* bytes that are not JSON, bytes that are not UTF-8, or, at the end of    *)
(* the stream, a length prefix cut short; "eof" is the empty read.         *)
(***************************************************************************)
PyNone == [t |-> "none"]
NoExc == [type |-> NoneVal, msg |-> ""]

\* the request ids the browser assigns
RequestIds == {1, 2}

QueryActions == {"summarize", "ask", "explain", "analyze_network", "suggest_dom_changes"}

VALID_MODELS == {"sonnet", "opus", "haiku"}

\* a JSON number where the host expects text
JsonNumber == "<the number 5>"

\* a JSON array where the host expects text
JsonList == "<the list []>"

\* the text s repeated n times
RECURSIVE Repeat(_, _)
Repeat(s, n) ==
    IF n = 0 THEN ""
    ELSE Repeat(s, n \div 2) \o Repeat(s, n \div 2) \o (IF n % 2 = 1 THEN s ELSE "")

\* what follows the first 20,000 characters of the long page
HtmlTail == "<p id=\"tail\">the end</p>"

\* a page of more than 20,000 characters
LongHtml == Repeat("<br>", 5000) \o HtmlTail

\* the dicts the browser sends
QueryMessages ==
    { [action |-> "summarize", requestId |-> r, content |-> "<p>news</p>"] : r \in RequestIds }
    \cup { [action |-> "summarize", requestId |-> 1, content |-> "", model |-> m] :
             m \in {"opus", "gpt-4"} }
    \cup { [action |-> "summarize", requestId |-> 2, content |-> JsonNumber] }
    \cup { [action |-> "explain", requestId |-> 2, selection |-> "x = 1", model |-> m] :
             m \in {"haiku", JsonNumber, JsonList} }
    \cup { [action |-> "ask", requestId |-> r, question |-> "Who wrote this?",
            content |-> "<p>news</p>"] : r \in RequestIds }
    \cup { [action |-> "explain", requestId |-> r, selection |-> "x = 1"] : r \in RequestIds }
    \cup { [action |-> "analyze_network", requestId |-> r,
            networkData |-> << "GET /a", "GET /b" >>] : r \in RequestIds }
    \cup { [action |-> "suggest_dom_changes", requestId |-> r, html |-> "<h1>T</h1>",
            request |-> "hide the title"] : r \in RequestIds }
    \cup { [action |-> "suggest_dom_changes", requestId |-> 1, html |-> LongHtml,
            request |-> "hide the title"] }

CancelMessages ==
    { [action |-> "cancel", requestId |-> r, targetRequestId |-> t] :
        r \in RequestIds, t \in RequestIds }

OtherMessages ==
    { [action |-> "ping", requestId |-> r] : r \in RequestIds }
    \cup { [action |-> "ping"] }
    \cup { [action |-> "bogus", requestId |-> r] : r \in RequestIds }
    \cup { [requestId |-> r] : r \in RequestIds }

Messages == QueryMessages \cup CancelMessages \cup OtherMessages

JsonFrame(v) == [kind |-> "json", value |-> v]

Frames ==
    { JsonFrame([t |-> "dict", d |-> m]) : m \in Messages }
    \cup { JsonFrame([t |-> "null"]), JsonFrame([t |-> "list"]) }
    \cup { [kind |-> "badjson"], [kind |-> "badutf8"], [kind |-> "shortprefix"] }

EofFrame == [kind |-> "eof"]

\* json.loads on the text of a JSON value: null becomes None
json_loads(v) == IF v.t = "null" THEN PyNone ELSE v

Return(v) == [raised |-> FALSE, value |-> v, exc |-> NoExc]
Raise(type, msg) == [raised |-> TRUE, value |-> PyNone, exc |-> [type |-> type, msg |-> msg]]

\* read_message() when the next bytes of stdin are the frame f
read_message(f) ==
    CASE f.kind = "eof" -> Return(PyNone)
      [] f.kind = "shortprefix" ->
            Raise("struct.error", "unpack requires a buffer of 4 bytes")
      [] f.kind = "badutf8" ->
            Raise("UnicodeDecodeError", "'utf-8' codec can't decode byte 0xff")
      [] f.kind = "badjson" ->
            Raise("JSONDecodeError", "Expecting value: line 1 column 1 (char 0)")
      [] OTHER -> Return(json_loads(f.value))

\* the dict main() sends from its except clause
ErrorFrame(e) == [success |-> FALSE, error |-> e.msg]

(***************************************************************************)
(* Text helpers.                                                           *)
(***************************************************************************)
IsSpace(c) == c \in {" ", "\n", "\t", "\r"}

\* str.strip()
RECURSIVE LStrip(_)
LStrip(s) ==
    IF Len(s) > 0 /\ IsSpace(SubSeq(s, 1, 1)) THEN LStrip(SubSeq(s, 2, Len(s))) ELSE s

RECURSIVE RStrip(_)
RStrip(s) ==
    IF Len(s) > 0 /\ IsSpace(SubSeq(s, Len(s), Len(s)))
    THEN RStrip(SubSeq(s, 1, Len(s) - 1)) ELSE s

Strip(s) == RStrip(LStrip(s))

\* s[:500] + ('...' if len(s) > 500 else '')
Preview(s) == Prefix(s, 500) \o (IF Len(s) > 500 THEN "..." ELSE "")

\* json.dumps(xs, indent=2) for a list of strings
RECURSIVE DumpItems(_)
DumpItems(xs) ==
    IF Len(xs) = 0 THEN ""
    ELSE "\n  \"" \o Head(xs) \o "\"" \o (IF Len(xs) > 1 THEN "," ELSE "") \o DumpItems(Tail(xs))

JsonDumpsIndent2(xs) == IF Len(xs) = 0 THEN "[]" ELSE "[" \o DumpItems(xs) \o "\n]"

\* str(x) of an action value, which may be None
Str(x) == IF x = NoneVal THEN "None" ELSE x

(***************************************************************************)
(* The subprocess.  A process is "running" until it exits by itself with   *)
(* code 0 or 1 or is killed; Popen.kill() on a process that has exited     *)
(* does nothing and does not raise.                                        *)
(***************************************************************************)
Kill(ps, pid) == IF ps[pid] = "running" THEN [ps EXCEPT ![pid] = "killed"] ELSE ps

ReturnCode(st) == CASE st = "exit0" -> 0 [] st = "exit1" -> 1 [] OTHER -> -9

ProcStdout(st) == IF st = "exit0" THEN "  The page reports news.\n" ELSE ""

ProcStderr(st) == IF st = "exit1" THEN "Invalid API key\n" ELSE ""

IntStr(n) == CASE n = 0 -> "0" [] n = 1 -> "1" [] OTHER -> "-9"

\* communicate(timeout=180), line 201
TimeoutSeconds == 180

\* int((time.time() - start_time) * 1000): the clock is not modelled; a call
\* that timed out took the timeout, any other call one millisecond
DurationMs(timedOut) == IF timedOut THEN TimeoutSeconds * 1000 ELSE 1

(***************************************************************************)
(* query_claude                                                            *)
(***************************************************************************)
NotFoundText == "Error: Claude Code CLI not found.\n\nSearched locations:\n- PATH directories\n- %APPDATA%\\npm\n- %LOCALAPPDATA%\\npm\n\nPlease ensure Claude Code is installed:\n  npm install -g @anthropic-ai/claude-code\n\nOr specify the full path in the native host script."

TimeoutText == "Error: Claude Code request timed out (180s). This may indicate Claude Code CLI needs authentication or is prompting for input."

\* lines 126-137
FullPrompt(prompt, context) == IF context # "" THEN context \o "\n\n" \o prompt ELSE prompt

ModelAlias(model) == IF model \in VALID_MODELS THEN model ELSE "sonnet"

InitialResult(prompt, context, model) ==
    [prompt_size |-> Len(FullPrompt(prompt, context)),
     prompt_preview |-> Preview(FullPrompt(prompt, context)),
     model_used |-> ModelAlias(model)]

\* lines 143-155
NotFoundResult(rd) ==
    Update(rd, [duration_ms |-> 0, response |-> NotFoundText, success |-> FALSE])

\* lines 203-215: communicate returned, the process is in state st
CompletedResult(rd, claude_path, st) ==
    LET base == Update(rd, [duration_ms |-> DurationMs(FALSE), claude_path |-> claude_path])
    IN  IF ReturnCode(st) = 0
        THEN Update(base, [response |-> Strip(ProcStdout(st)),
                           response_size |-> Len(ProcStdout(st)),
                           response_preview |-> Preview(ProcStdout(st)),
                           success |-> TRUE])
        ELSE Update(base, [response |-> "Error (exit code " \o IntStr(ReturnCode(st))
                                          \o "): " \o ProcStderr(st),
                           success |-> FALSE])

\* lines 225-228
TimeoutResult(rd) ==
    Update(rd, [duration_ms |-> DurationMs(TRUE), response |-> TimeoutText,
                success |-> FALSE])

\* lines 234-243: the two except clauses of the outer try
ExceptResult(rd, claude_path, e) ==
    IF e.type = "FileNotFoundError"
    THEN Update(rd, [duration_ms |-> DurationMs(FALSE),
                     response |-> "Error: Could not execute '" \o claude_path \o "': " \o e.msg,
                     success |-> FALSE])
    ELSE Update(rd, [duration_ms |-> DurationMs(FALSE),
                     response |-> "Error: " \o e.msg,
                     success |-> FALSE])

\* A faulty finally clause: the file is left where it is.
CleanUp_Leaves(files, temp_file, unlinkFails) == files

\* lines 244-251: the files that exist after the finally clause; temp_file is
\* 0 for None; an os.unlink that raises is logged and the file stays
CleanUp(files, temp_file, unlinkFails) ==
    IF temp_file # 0 /\ temp_file \in files /\ ~unlinkFails
    THEN files \ {temp_file}
    ELSE files

\* lines 250-251: the log after the finally clause
CleanUpLog(log, files, temp_file, unlinkFails) ==
    IF temp_file # 0 /\ temp_file \in files /\ unlinkFails
    THEN log \cup {temp_file}
    ELSE log

(***************************************************************************)
(* handle_message                                                          *)
(***************************************************************************)
\* A faulty envelope: the requestId of the request is not copied.
Envelope_FixedId(d) ==
    [requestId |-> 0, success |-> FALSE, action |-> Get(d, "action", NoneVal)]

\* lines 271-279
Envelope(d) ==
    [requestId |-> Get(d, "requestId", 0),
     success |-> FALSE,
     action |-> Get(d, "action", NoneVal)]

\* the fixed text of lines 348-365, shortened
DomInstructions == "\n\nSuggest specific DOM changes as a JSON array. [...]\n\nRespond with ONLY the JSON array, no other text."

\* the html[:20000] of line 366
MaxHtmlChars == 20000

\* the arguments each query action passes to query_claude
QueryArgs(d) ==
    LET a == d.action
        model == Get(d, "model", "sonnet")
    IN  CASE a = "summarize" ->
               [prompt |-> "Summarize the following web page content concisely:",
                context |-> Get(d, "content", ""), model |-> model]
          [] a = "ask" ->
               [prompt |-> Get(d, "question", ""),
                context |-> "Based on this web page content:\n" \o Get(d, "content", ""),
                model |-> model]
          [] a = "explain" ->
               [prompt |-> "Explain the following text or code snippet:\n"
                             \o Get(d, "selection", ""),
                context |-> "", model |-> model]
          [] a = "analyze_network" ->
               [prompt |-> "Analyze this network activity and identify what's consuming the most resources. Provide insights on potential performance issues:",
                context |-> JsonDumpsIndent2(Get(d, "networkData", << >>)),
                model |-> model]
          [] a = "suggest_dom_changes" ->
               [prompt |-> "User request: " \o Get(d, "request", "") \o DomInstructions,
                context |-> "Current HTML structure:\n"
                              \o Prefix(Get(d, "html", ""), MaxHtmlChars),
                model |-> model]

\* A faulty merge: result is not aliased from the executor's response.
MergeResult_NoAlias(resp, result) == Put(Update(resp, result), "success", result.success)

\* response.update(result); response['result'] = result['response'];
\* response['success'] = result['success']
MergeResult(resp, result) ==
    Put(Put(Update(resp, result), "result", result.response), "success", result.success)

\* lines 285-287
CancelResponse(resp, cancelled) ==
    Update(resp, [success |-> TRUE, cancelled |-> cancelled,
                  result |-> IF cancelled THEN "Request cancelled"
                             ELSE "No active request found"])

\* A faulty ping: it succeeds only when the executable is found.
PingResponse_NeedsPath(resp, claude_path) ==
    Update(resp, [result |-> "pong",
                  claude_path |-> IF claude_path # NoneVal THEN claude_path ELSE "NOT FOUND",
                  success |-> claude_path # NoneVal])

\* lines 376-379
PingResponse(resp, claude_path) ==
    Update(resp, [result |-> "pong",
                  claude_path |-> IF claude_path # NoneVal THEN claude_path ELSE "NOT FOUND",
                  success |-> TRUE])

\* A faulty unknown-action branch: the error does not name the action.
UnknownResponse_NoName(resp, action) == Put(resp, "error", "Unknown action")

\* line 382
UnknownResponse(resp, action) == Put(resp, "error", "Unknown action: " \o Str(action))

\* A faulty cancel_request: it reports the cancellation without killing.
cancel_request_NoKill(registry, ps, request_id) ==
    [ret |-> request_id \in DOMAIN registry, procs |-> ps]

\* cancel_request's body under process_lock (lines 259-266): the value
\* returned and the processes afterwards.  Popen.kill() does not raise for a
\* child of the host (see Kill), so the except clause of lines 264-265 is not
\* entered and a tracked process always yields True.
cancel_request(registry, ps, request_id) ==
    IF request_id \in DOMAIN registry
    THEN [ret |-> TRUE, procs |-> Kill(ps, registry[request_id])]
    ELSE [ret |-> FALSE, procs |-> ps]

(***************************************************************************)
(* The state after the module is loaded and main() is entered.             *)
(***************************************************************************)
EmptyDict == << >>

Init ==
    /\ platform \in Platforms
    /\ _claude_path = NoneVal
    /\ active_processes = EmptyDict
    /\ process_lock = "free"
    /\ procs = << >>
    /\ tempfiles = {}
    /\ warned = {}
    /\ eof = FALSE
    /\ pc = "read"
    /\ message = PyNone
    /\ response = EmptyDict
    /\ q = NoQuery
    /\ caught = NoExc
    /\ reads = << >>
    /\ stdout = << >>
    /\ apc = "idle"
    /\ atarget = 0
    /\ aresp = EmptyDict
    /\ wire = << >>
    /\ sent = << >>
    /\ got = << >>

auxVars == <<apc, atarget, aresp>>
\* the byte channel of the codec: the host's actions abstract stdin and stdout
\* to frames and leave it alone
codecVars == <<wire, sent, got>>
osVars == <<procs, tempfiles>>
registryVars == <<active_processes, process_lock>>

\* What the history keeps of a frame read: whether it held a request (a JSON
\* object) and the requestId handle_message takes from it (line 272).
ReadSummary(f) ==
    IF f.kind = "json" /\ f.value.t = "dict"
    THEN [kind |-> "request", requestId |-> Get(f.value.d, "requestId", 0)]
    ELSE [kind |-> IF f.kind = "shortprefix" THEN "shortprefix" ELSE "invalid",
          requestId |-> NoId]

(***************************************************************************)
(* main(): message = read_message() (lines 394-396).  The browser decides  *)
(* what the next frame is; after a length prefix cut short the stream is   *)
(* at its end.                                                             *)
(***************************************************************************)
MainRead(f) ==
    /\ pc = "read"
    /\ f = EofFrame \/ Len(reads) < MaxFrames
    /\ (reads # << >> /\ reads[Len(reads)].kind = "shortprefix") => f = EofFrame
    /\ reads' = IF f = EofFrame THEN reads ELSE Append(reads, ReadSummary(f))
    /\ eof' = (f = EofFrame)
    /\ LET r == read_message(f)
       IN  IF r.raised
           THEN /\ caught' = r.exc
                /\ pc' = "except"
                /\ message' = message
           ELSE IF r.value.t = "none"
           THEN /\ pc' = "done"
                /\ message' = r.value
                /\ caught' = caught
           ELSE /\ pc' = "handle"
                /\ message' = r.value
                /\ caught' = caught
    /\ UNCHANGED <<codecVars, warned, platform, _claude_path, registryVars, osVars, response,
                   q, stdout, auxVars>>

(***************************************************************************)
(* handle_message(message), one action per branch.                         *)
(***************************************************************************)
\* message.get on a value that is not a dict raises before the try (line 271)
HandleNotDict ==
    /\ pc = "handle"
    /\ message.t # "dict"
    /\ caught' = [type |-> "AttributeError", msg |-> "'list' object has no attribute 'get'"]
    /\ pc' = "except"
    /\ UNCHANGED <<codecVars, warned, platform, eof, _claude_path, registryVars, osVars,
                   message, response, q, reads, stdout, auxVars>>

ActionOf(m) == Get(m.d, "action", NoneVal)

\* lines 282-284, up to cancel_request's "with process_lock"
HandleCancel ==
    /\ pc = "handle"
    /\ message.t = "dict"
    /\ ActionOf(message) = "cancel"
    /\ response' = Envelope(message.d)
    /\ pc' = "cancel_lock"
    /\ UNCHANGED <<codecVars, warned, platform, eof, _claude_path, registryVars, osVars,
                   message, q, caught, reads, stdout, auxVars>>

MainCancelAcquire ==
    /\ pc = "cancel_lock"
    /\ process_lock = "free"
    /\ process_lock' = "main"
    /\ pc' = "cancel_held"
    /\ UNCHANGED <<codecVars, warned, platform, eof, _claude_path, active_processes, osVars,
                   message, response, q, caught, reads, stdout, auxVars>>

\* cancel_request's body, the release of the lock, and lines 285-288
MainCancelBody ==
    /\ pc = "cancel_held"
    /\ LET c == cancel_request(active_processes, procs, Get(message.d, "targetRequestId", 0))
       IN  /\ procs' = c.procs
           /\ response' = CancelResponse(response, c.ret)
    /\ process_lock' = "free"
    /\ pc' = "send"
    /\ UNCHANGED <<codecVars, warned, platform, eof, _claude_path, active_processes, tempfiles,
                   message, q, caught, reads, stdout, auxVars>>

\* lines 374-379
HandlePing(env) ==
    /\ pc = "handle"
    /\ message.t = "dict"
    /\ ActionOf(message) = "ping"
    /\ LET fc == find_claude(_claude_path, platform, env)
       IN  /\ _claude_path' = fc.cache
           /\ response' = PingResponse(Envelope(message.d), fc.ret)
    /\ pc' = "send"
    /\ UNCHANGED <<codecVars, warned, platform, eof, registryVars, osVars, message, q, caught,
                   reads, stdout, auxVars>>

\* lines 381-382
HandleUnknown ==
    /\ pc = "handle"
    /\ message.t = "dict"
    /\ ActionOf(message) \notin QueryActions \cup {"cancel", "ping"}
    /\ response' = UnknownResponse(Envelope(message.d), ActionOf(message))
    /\ pc' = "send"
    /\ UNCHANGED <<codecVars, warned, platform, eof, _claude_path, registryVars, osVars,
                   message, q, caught, reads, stdout, auxVars>>

(***************************************************************************)
(* A query action: handle_message calls query_claude (lines 290-372).      *)
(* query_claude runs in the calling thread; the action is split where the  *)
(* thread can block: at the two "with process_lock" and at communicate().  *)
(***************************************************************************)
\* query_claude takes len(context) before its try (line 124): a content that
\* is a number makes it raise TypeError
BadContent(d) == d.action = "summarize" /\ Get(d, "content", "") = JsonNumber

\* "model in VALID_MODELS" (line 128) hashes the model: a list has no hash
BadModel(d) == Get(d, "model", "sonnet") = JsonList

RaisesTypeError(d) == BadContent(d) \/ BadModel(d)

\* str(e) of the TypeError raised
TypeErrorMsg(d) ==
    IF BadContent(d) THEN "object of type 'int' has no len()" ELSE "unhashable type: 'list'"

IsQuery ==
    /\ pc = "handle"
    /\ message.t = "dict"
    /\ ActionOf(message) \in QueryActions
    /\ ~RaisesTypeError(message.d)

\* lines 384-385: an exception raised inside handle_message's try
HandleRaises ==
    /\ pc = "handle"
    /\ message.t = "dict"
    /\ ActionOf(message) \in QueryActions
    /\ RaisesTypeError(message.d)
    /\ response' = Put(Envelope(message.d), "error", TypeErrorMsg(message.d))
    /\ pc' = "send"
    /\ UNCHANGED <<codecVars, warned, platform, eof, _claude_path, registryVars, osVars,
                   message, q, caught, reads, stdout, auxVars>>

Args == QueryArgs(message.d)

\* tempfile.NamedTemporaryFile picks a name no existing file has: the model
\* names the file after the frame being handled
FreshName == Len(reads)

\* A faulty query_claude: the prompt file is written before the executable is
\* looked up, and is left behind when the lookup fails.
QueryNotFound_FileFirst(env) ==
    /\ IsQuery
    /\ LET fc == find_claude(_claude_path, platform, env)
           rd == InitialResult(Args.prompt, Args.context, Args.model)
       IN  /\ fc.ret = NoneVal
           /\ _claude_path' = fc.cache
           /\ response' = MergeResult(Envelope(message.d), NotFoundResult(rd))
    /\ tempfiles' = tempfiles \cup {FreshName}
    /\ pc' = "send"
    /\ UNCHANGED <<codecVars, warned, platform, eof, registryVars, procs, message, q, caught,
                   reads, stdout, auxVars>>

\* lines 139-155: find_claude finds nothing and query_claude returns at once
QueryNotFound(env) ==
    /\ IsQuery
    /\ LET fc == find_claude(_claude_path, platform, env)
           rd == InitialResult(Args.prompt, Args.context, Args.model)
       IN  /\ fc.ret = NoneVal
           /\ _claude_path' = fc.cache
           /\ response' = MergeResult(Envelope(message.d), NotFoundResult(rd))
    /\ pc' = "send"
    /\ UNCHANGED <<codecVars, warned, platform, eof, registryVars, osVars, message, q, caught,
                   reads, stdout, auxVars>>

\* What can fail before the subprocess runs: NamedTemporaryFile (no file, temp_file
\* stays None), temp_file.write (the file exists), Popen (the file is written).
EarlyFaults == {"mkstemp", "write", "spawn"}

FaultExc(fault) ==
    CASE fault = "mkstemp" -> [type |-> "OSError", msg |-> "[Errno 28] No space left on device"]
      [] fault = "write" -> [type |-> "OSError", msg |-> "[Errno 28] No space left on device"]
      [] fault = "spawn" -> [type |-> "FileNotFoundError",
                             msg |-> "[Errno 2] No such file or directory: '/bin/sh'"]

\* lines 157-191 raise: the except clauses 234-243, the finally 244-251, return
QueryFailsEarly(env, fault, unlinkFails) ==
    /\ IsQuery
    /\ LET fc == find_claude(_claude_path, platform, env)
           rd == InitialResult(Args.prompt, Args.context, Args.model)
           temp_file == IF fault = "mkstemp" THEN 0 ELSE FreshName
           created == IF fault = "mkstemp" THEN tempfiles ELSE tempfiles \cup {FreshName}
       IN  /\ fc.ret # NoneVal
           /\ _claude_path' = fc.cache
           /\ tempfiles' = CleanUp(created, temp_file, unlinkFails)
           /\ warned' = CleanUpLog(warned, created, temp_file, unlinkFails)
           /\ response' = MergeResult(Envelope(message.d),
                                      ExceptResult(rd, fc.ret, FaultExc(fault)))
    /\ pc' = "send"
    /\ UNCHANGED <<codecVars, platform, eof, registryVars, procs, message, q, caught, reads,
                   stdout, auxVars>>

\* lines 157-193: the prompt file is written and the subprocess started
QuerySpawn(env) ==
    /\ IsQuery
    /\ LET fc == find_claude(_claude_path, platform, env)
           rd == InitialResult(Args.prompt, Args.context, Args.model)
       IN  /\ fc.ret # NoneVal
           /\ _claude_path' = fc.cache
           /\ tempfiles' = tempfiles \cup {FreshName}
           /\ procs' = Append(procs, "running")
           /\ q' = [active |-> TRUE,
                    request_id |-> Get(message.d, "requestId", 0),
                    full_prompt |-> FullPrompt(Args.prompt, Args.context),
                    result_data |-> rd,
                    claude_path |-> fc.ret,
                    temp_file |-> FreshName,
                    process |-> Len(procs) + 1,
                    timed_out |-> FALSE,
                    exc |-> NoExc]
    /\ response' = Envelope(message.d)
    /\ pc' = "reg_lock"
    /\ UNCHANGED <<codecVars, warned, platform, eof, registryVars, message, caught, reads,
                   stdout, auxVars>>

\* line 196: with process_lock
RegisterAcquire ==
    /\ pc = "reg_lock"
    /\ process_lock = "free"
    /\ process_lock' = "main"
    /\ pc' = "reg_held"
    /\ UNCHANGED <<codecVars, warned, platform, eof, _claude_path, active_processes, osVars,
                   message, response, q, caught, reads, stdout, auxVars>>

\* A faulty registration: the lock is kept while the subprocess runs.
Register_KeepsLock ==
    /\ pc = "reg_held"
    /\ active_processes' = Put(active_processes, q.request_id, q.process)
    /\ process_lock' = "main"
    /\ pc' = "wait"
    /\ UNCHANGED <<codecVars, warned, platform, eof, _claude_path, osVars, message, response,
                   q, caught, reads, stdout, auxVars>>

\* line 197 and the release of the lock
Register ==
    /\ pc = "reg_held"
    /\ active_processes' = Put(active_processes, q.request_id, q.process)
    /\ process_lock' = "free"
    /\ pc' = "wait"
    /\ UNCHANGED <<codecVars, warned, platform, eof, _claude_path, osVars, message, response,
                   q, caught, reads, stdout, auxVars>>

\* the subprocess exits by itself
ProcExit(pid, st) ==
    /\ pid \in 1..Len(procs)
    /\ procs[pid] = "running"
    /\ st \in {"exit0", "exit1"}
    /\ procs' = [procs EXCEPT ![pid] = st]
    /\ UNCHANGED <<codecVars, warned, platform, eof, _claude_path, registryVars, tempfiles, pc,
                   message, response, q, caught, reads, stdout, auxVars>>

\* lines 201-215: communicate returns once the process has exited or was
\* killed; decoding its output may raise (text=True), which leaves the try
WaitCompleted(decodeFails) ==
    /\ pc = "wait"
    /\ procs[q.process] # "running"
    /\ q' = IF decodeFails
            THEN [q EXCEPT !.exc = [type |-> "UnicodeDecodeError",
                                    msg |-> "'utf-8' codec can't decode byte 0x80"]]
            ELSE [q EXCEPT !.result_data =
                      CompletedResult(q.result_data, q.claude_path, procs[q.process])]
    /\ pc' = "unreg_lock"
    /\ UNCHANGED <<codecVars, warned, platform, eof, _claude_path, registryVars, osVars,
                   message, response, caught, reads, stdout, auxVars>>

\* A faulty timeout branch: the process is not killed.
WaitTimeout_NoKill ==
    /\ pc = "wait"
    /\ q' = [q EXCEPT !.timed_out = TRUE,
                      !.result_data = TimeoutResult(q.result_data)]
    /\ pc' = "unreg_lock"
    /\ UNCHANGED <<codecVars, warned, platform, eof, _claude_path, registryVars, osVars,
                   message, response, caught, reads, stdout, auxVars>>

\* lines 217-228: communicate raises TimeoutExpired, the process is killed and
\* its output drained for at most 5 seconds, the bare except swallowing a failure
WaitTimeout ==
    /\ pc = "wait"
    /\ procs' = Kill(procs, q.process)
    /\ q' = [q EXCEPT !.timed_out = TRUE,
                      !.result_data = TimeoutResult(q.result_data)]
    /\ pc' = "unreg_lock"
    /\ UNCHANGED <<codecVars, warned, platform, eof, _claude_path, registryVars, tempfiles,
                   message, response, caught, reads, stdout, auxVars>>

\* line 231: with process_lock
UnregisterAcquire ==
    /\ pc = "unreg_lock"
    /\ process_lock = "free"
    /\ process_lock' = "main"
    /\ pc' = "unreg_held"
    /\ UNCHANGED <<codecVars, warned, platform, eof, _claude_path, active_processes, osVars,
                   message, response, q, caught, reads, stdout, auxVars>>

\* the result query_claude returns: an exception that left the inner try is
\* turned into a result by the except clauses of the outer one
QueryResult ==
    IF q.exc # NoExc THEN ExceptResult(q.result_data, q.claude_path, q.exc)
    ELSE q.result_data

\* A faulty finally clause: the entry is not popped.
Unregister_NoPop(unlinkFails) ==
    /\ pc = "unreg_held"
    /\ process_lock' = "free"
    /\ tempfiles' = CleanUp(tempfiles, q.temp_file, unlinkFails)
    /\ warned' = CleanUpLog(warned, tempfiles, q.temp_file, unlinkFails)
    /\ response' = MergeResult(response, QueryResult)
    /\ q' = NoQuery
    /\ pc' = "send"
    /\ UNCHANGED <<codecVars, platform, eof, _claude_path, active_processes, procs, message,
                   caught, reads, stdout, auxVars>>

\* line 232, the release of the lock, lines 234-253, and the merge of the
\* result into the response (lines 299-301 and their like)
Unregister(unlinkFails) ==
    /\ pc = "unreg_held"
    /\ active_processes' = Pop(active_processes, q.request_id)
    /\ process_lock' = "free"
    /\ tempfiles' = CleanUp(tempfiles, q.temp_file, unlinkFails)
    /\ warned' = CleanUpLog(warned, tempfiles, q.temp_file, unlinkFails)
    /\ response' = MergeResult(response, QueryResult)
    /\ q' = NoQuery
    /\ pc' = "send"
    /\ UNCHANGED <<codecVars, platform, eof, _claude_path, procs, message, caught, reads,
                   stdout, auxVars>>

(***************************************************************************)
(* main(): send_message(response) (line 399) and the except clause         *)
(* (lines 401-405).                                                        *)
(***************************************************************************)
\* A faulty write: the frame is put in front of the frames written before.
send_message_InFront(out, d) == << Get(d, "requestId", NoId) >> \o out

\* send_message(d) writes one frame, the JSON text of d, and flushes.  Of the
\* frames written the history keeps the field that ties a response to its
\* request; the whole frame is the value of response (or caught) when it is sent.
send_message(out, d) == Append(out, Get(d, "requestId", NoId))

Send ==
    /\ pc = "send"
    /\ stdout' = send_message(stdout, response)
    /\ pc' = "read"
    \* the locals of the finished iteration are dead: both are rebound before use
    /\ message' = PyNone
    /\ response' = EmptyDict
    /\ UNCHANGED <<codecVars, warned, platform, eof, _claude_path, registryVars, osVars, q,
                   caught, reads, auxVars>>

SendError ==
    /\ pc = "except"
    /\ stdout' = send_message(stdout, ErrorFrame(caught))
    /\ caught' = NoExc
    /\ pc' = "read"
    /\ message' = PyNone
    /\ UNCHANGED <<codecVars, warned, platform, eof, _claude_path, registryVars, osVars,
                   response, q, reads, auxVars>>

Next ==
    \/ \E f \in Frames \cup {EofFrame} : MainRead(f)
    \/ HandleNotDict
    \/ HandleCancel
    \/ MainCancelAcquire
    \/ MainCancelBody
    \/ \E env \in Envs : HandlePing(env)
    \/ HandleUnknown
    \/ HandleRaises
    \/ \E env \in Envs : QueryNotFound(env)
    \/ \E env \in Envs, fault \in EarlyFaults, unlinkFails \in BOOLEAN :
          QueryFailsEarly(env, fault, unlinkFails)
    \/ \E env \in Envs : QuerySpawn(env)
    \/ RegisterAcquire
    \/ Register
    \/ \E pid \in 1..Len(procs), st \in {"exit0", "exit1"} : ProcExit(pid, st)
    \/ \E decodeFails \in BOOLEAN : WaitCompleted(decodeFails)
    \/ WaitTimeout
    \/ UnregisterAcquire
    \/ \E unlinkFails \in BOOLEAN : Unregister(unlinkFails)
    \/ Send
    \/ SendError

Spec == Init /\ [][Next]_vars

(***************************************************************************)
(* cancel_request called while a query runs.  main() is single-threaded,   *)
(* so it never does this; process_lock exists for a caller on another      *)
(* thread.  Here a second thread calls handle_message once with a cancel   *)
(* message while the main thread goes through its loop.                    *)
(***************************************************************************)
AuxMessage(t) == [action |-> "cancel", targetRequestId |-> t]

\* lines 282-284, up to cancel_request's "with process_lock"
AuxCall(t) ==
    /\ apc = "idle"
    /\ apc' = "lock"
    /\ atarget' = t
    /\ aresp' = Envelope(AuxMessage(t))
    /\ UNCHANGED <<codecVars, warned, platform, eof, _claude_path, registryVars, osVars, pc,
                   message, response, q, caught, reads, stdout>>

AuxAcquire ==
    /\ apc = "lock"
    /\ process_lock = "free"
    /\ process_lock' = "aux"
    /\ apc' = "held"
    /\ UNCHANGED <<codecVars, warned, platform, eof, _claude_path, active_processes, osVars,
                   pc, message, response, q, caught, reads, stdout, atarget, aresp>>

\* A faulty cancel: it also removes the entry of the request it cancels.
AuxCancelBody_Pops ==
    /\ apc = "held"
    /\ LET c == cancel_request(active_processes, procs,
                               Get(AuxMessage(atarget), "targetRequestId", 0))
       IN  /\ procs' = c.procs
           /\ aresp' = CancelResponse(aresp, c.ret)
    /\ active_processes' = Pop(active_processes, atarget)
    /\ process_lock' = "free"
    /\ apc' = "returned"
    /\ UNCHANGED <<codecVars, warned, platform, eof, _claude_path, tempfiles, pc, message,
                   response, q, caught, reads, stdout, atarget>>

\* cancel_request's body, the release of the lock, and lines 285-288
AuxCancelBody ==
    /\ apc = "held"
    /\ LET c == cancel_request(active_processes, procs,
                               Get(AuxMessage(atarget), "targetRequestId", 0))
       IN  /\ procs' = c.procs
           /\ aresp' = CancelResponse(aresp, c.ret)
    /\ process_lock' = "free"
    /\ apc' = "returned"
    /\ UNCHANGED <<codecVars, warned, platform, eof, _claude_path, active_processes, tempfiles,
                   pc, message, response, q, caught, reads, stdout, atarget>>

\* the frames the browser sends in this scenario
ThreadFrames ==
    { JsonFrame([t |-> "dict", d |-> m]) :
        m \in { [action |-> "summarize", requestId |-> r, content |-> "<p>news</p>"] :
                  r \in RequestIds }
              \cup { [action |-> "explain", requestId |-> 1, selection |-> "x = 1"],
                     [action |-> "cancel", requestId |-> 2, targetRequestId |-> 1],
                     [action |-> "ping", requestId |-> 2],
                     [action |-> "bogus", requestId |-> 2] } }

NextThreads ==
    \/ \E f \in ThreadFrames \cup {EofFrame} : MainRead(f)
    \/ HandleCancel
    \/ MainCancelAcquire
    \/ MainCancelBody
    \/ \E env \in Envs : HandlePing(env)
    \/ HandleUnknown
    \/ \E env \in Envs : QueryNotFound(env)
    \/ \E env \in Envs, fault \in EarlyFaults, unlinkFails \in BOOLEAN :
          QueryFailsEarly(env, fault, unlinkFails)
    \/ \E env \in Envs : QuerySpawn(env)
    \/ RegisterAcquire
    \/ Register
    \/ \E pid \in 1..Len(procs), st \in {"exit0", "exit1"} : ProcExit(pid, st)
    \/ \E decodeFails \in BOOLEAN : WaitCompleted(decodeFails)
    \/ WaitTimeout
    \/ UnregisterAcquire
    \/ \E unlinkFails \in BOOLEAN : Unregister(unlinkFails)
    \/ Send
    \/ \E t \in RequestIds : AuxCall(t)
    \/ AuxAcquire
    \/ AuxCancelBody

SpecThreads == Init /\ [][NextThreads]_vars

(***************************************************************************)
(* The frame codec at the level of bytes.  A text is a sequence of         *)
(* characters, each a one-character string, "U+00E9" standing for the      *)
(* character e-acute; a byte is a number in 0..255.  The objects are the   *)
(* values json.loads produces: None, booleans, integers, texts, lists and  *)
(* dicts with text keys, a dict being the sequence of its items in         *)
(* insertion order.                                                        *)
(***************************************************************************)
\* the code point of each character the model writes or reads
CharCodes ==
    { <<"\n", 10>>, <<"\"", 34>>, <<",", 44>>, <<"-", 45>>, <<"0", 48>>, <<"1", 49>>,
      <<"2", 50>>, <<"3", 51>>, <<"4", 52>>, <<"5", 53>>, <<"6", 54>>, <<"7", 55>>,
      <<"8", 56>>, <<"9", 57>>, <<":", 58>>, <<"[", 91>>, <<"\\", 92>>, <<"]", 93>>,
      <<"a", 97>>, <<"b", 98>>, <<"c", 99>>, <<"d", 100>>, <<"e", 101>>, <<"f", 102>>,
      <<"l", 108>>, <<"n", 110>>, <<"r", 114>>, <<"s", 115>>, <<"t", 116>>, <<"u", 117>>,
      <<"{", 123>>, <<"}", 125>>, <<"U+00E9", 233>> }

ord(c) == (CHOOSE p \in CharCodes : p[1] = c)[2]
chr(n) == (CHOOSE p \in CharCodes : p[2] = n)[1]

HexDigits == << "0", "1", "2", "3", "4", "5", "6", "7", "8", "9", "a", "b", "c", "d", "e", "f" >>

PyBool(b) == [t |-> "bool", b |-> b]
PyInt(n) == [t |-> "int", n |-> n]
PyStr(s) == [t |-> "str", s |-> s]
PyList(xs) == [t |-> "list", items |-> xs]
PyDict(kvs) == [t |-> "dict", items |-> kvs]

\* the characters of the texts sent: a letter, the two characters JSON
\* escapes with a backslash, a control character and a non-ASCII character
Characters == { "a", "\"", "\\", "\n", "U+00E9" }

Texts ==
    { << >> } \cup { << c >> : c \in Characters }
    \cup { << "\"", c >> : c \in Characters }

Atoms ==
    { PyNone, PyBool(TRUE), PyBool(FALSE), PyInt(0), PyInt(-12), PyInt(305) }
    \cup { PyStr(s) : s \in Texts }

\* the members of the lists and the values of the dicts sent
Members == { PyNone, PyInt(-12), PyStr(<< "\"", "a" >>), PyList(<< PyBool(TRUE) >>) }

Keys == { << "a" >>, << "U+00E9", "\\" >> }

Lists ==
    { PyList(<< >>) } \cup { PyList(<< x >>) : x \in Members }
    \cup { PyList(<< x, PyDict(<< << << "a" >>, x >> >>) >>) : x \in Members }

Dicts ==
    { PyDict(<< >>) } \cup { PyDict(<< << k, x >> >>) : k \in Keys, x \in Members }
    \cup { PyDict(<< << << "a" >>, x >>, << << "U+00E9", "\\" >>, PyList(<< x >>) >> >>) :
             x \in Members }

\* the objects handed to send_message
Objects == Atoms \cup Lists \cup Dicts

\* the decimal digits of a natural number
RECURSIVE Digits(_)
Digits(n) ==
    IF n < 10 THEN << HexDigits[n + 1] >> ELSE Digits(n \div 10) \o << HexDigits[(n % 10) + 1] >>

\* "\uXXXX": four lowercase hexadecimal digits
Hex4(n) ==
    << HexDigits[((n \div 4096) % 16) + 1], HexDigits[((n \div 256) % 16) + 1],
       HexDigits[((n \div 16) % 16) + 1], HexDigits[(n % 16) + 1] >>

\* A faulty escape: the quotation mark is written as it is.
EscapeChar_QuoteUnescaped(c) ==
    CASE c = "\\" -> << "\\", c >>
      [] c = "\n" -> << "\\", "n" >>
      [] ord(c) > 127 -> << "\\", "u" >> \o Hex4(ord(c))
      [] OTHER -> << c >>

\* json.dumps with ensure_ascii (its default) on one character of a text
EscapeChar(c) ==
    CASE c = "\"" \/ c = "\\" -> << "\\", c >>
      [] c = "\n" -> << "\\", "n" >>
      [] ord(c) > 127 -> << "\\", "u" >> \o Hex4(ord(c))
      [] OTHER -> << c >>

RECURSIVE EscapeText(_)
EscapeText(s) == IF s = << >> THEN << >> ELSE EscapeChar(Head(s)) \o EscapeText(Tail(s))

DumpText(s) == << "\"" >> \o EscapeText(s) \o << "\"" >>

RECURSIVE json_dumps(_)
RECURSIVE DumpList(_)
RECURSIVE DumpDict(_)

\* the items of a list joined with the separator ","
DumpList(xs) ==
    IF xs = << >> THEN << >>
    ELSE json_dumps(Head(xs)) \o (IF Len(xs) > 1 THEN << "," >> ELSE << >>) \o DumpList(Tail(xs))

\* the items of a dict joined with "," and key and value with ":"
DumpDict(kvs) ==
    IF kvs = << >> THEN << >>
    ELSE DumpText(Head(kvs)[1]) \o << ":" >> \o json_dumps(Head(kvs)[2])
         \o (IF Len(kvs) > 1 THEN << "," >> ELSE << >>) \o DumpDict(Tail(kvs))

\* json.dumps(message, separators=(',', ':')), line 115
json_dumps(v) ==
    CASE v.t = "none" -> << "n", "u", "l", "l" >>
      [] v.t = "bool" -> IF v.b THEN << "t", "r", "u", "e" >> ELSE << "f", "a", "l", "s", "e" >>
      [] v.t = "int" -> IF v.n < 0 THEN << "-" >> \o Digits(0 - v.n) ELSE Digits(v.n)
      [] v.t = "str" -> DumpText(v.s)
      [] v.t = "list" -> << "[" >> \o DumpList(v.items) \o << "]" >>
      [] v.t = "dict" -> << "{" >> \o DumpDict(v.items) \o << "}" >>

\* str.encode('utf-8'): one byte for a code point below 128, two below 2048
RECURSIVE utf8_encode(_)
utf8_encode(s) ==
    IF s = << >> THEN << >>
    ELSE (IF ord(Head(s)) < 128 THEN << ord(Head(s)) >>
          ELSE << 192 + (ord(Head(s)) \div 64), 128 + (ord(Head(s)) % 64) >>)
         \o utf8_encode(Tail(s))

\* struct.pack('@I', n): four bytes, the least significant first (the byte
\* order of the machine; the reader runs on the same machine)
struct_pack(n) == << n % 256, (n \div 256) % 256, (n \div 65536) % 256, (n \div 16777216) % 256 >>

struct_unpack(b) == b[1] + 256 * b[2] + 65536 * b[3] + 16777216 * b[4]

\* send_message(message) at the level of bytes: what the channel holds after it
send_message_bytes(out, v) ==
    LET encoded == utf8_encode(json_dumps(v))
    IN  out \o struct_pack(Len(encoded)) \o encoded

\* bytes.decode('utf-8') of well-formed UTF-8 of code points below 2048
RECURSIVE utf8_decode(_)
utf8_decode(b) ==
    IF b = << >> THEN << >>
    ELSE IF Head(b) < 128 THEN << chr(Head(b)) >> \o utf8_decode(Tail(b))
    ELSE << chr((Head(b) - 192) * 64 + (b[2] - 128)) >> \o utf8_decode(SubSeq(b, 3, Len(b)))

\* the character of a text at a position, "" past its end
At(s, i) == IF i >= 1 /\ i <= Len(s) THEN s[i] ELSE ""

\* what a scanner of the decoder returns: the value and the position after it
Scanned(v, next) == [ok |-> TRUE, value |-> v, next |-> next]
NoScan == [ok |-> FALSE, value |-> PyNone, next |-> 0]

HexValue(c) == (CHOOSE i \in 1..16 : HexDigits[i] = c) - 1
IsHex(c) == \E i \in 1..16 : HexDigits[i] = c
IsDigit(c) == \E i \in 1..10 : HexDigits[i] = c

\* the decoder's scan of a text literal from the position after its opening
\* quotation mark: the escapes \", \\, \n and \uXXXX are undone
RECURSIVE scanstring(_, _, _)
scanstring(s, i, acc) ==
    LET c == At(s, i)
        e == At(s, i + 1)
    IN  CASE c = "" -> NoScan
          [] c = "\"" -> Scanned(acc, i + 1)
          [] c = "\\" /\ e \in { "\"", "\\" } -> scanstring(s, i + 2, Append(acc, e))
          [] c = "\\" /\ e = "n" -> scanstring(s, i + 2, Append(acc, "\n"))
          [] c = "\\" /\ e = "u" /\ \A k \in 2..5 : IsHex(At(s, i + k)) ->
                scanstring(s, i + 6,
                           Append(acc, chr(4096 * HexValue(s[i + 2]) + 256 * HexValue(s[i + 3])
                                           + 16 * HexValue(s[i + 4]) + HexValue(s[i + 5]))))
          [] c = "\\" -> NoScan
          [] OTHER -> scanstring(s, i + 1, Append(acc, c))

\* the digits of a number from position i on: their value and the position after
RECURSIVE scandigits(_, _, _)
scandigits(s, i, acc) ==
    IF IsDigit(At(s, i)) THEN scandigits(s, i + 1, 10 * acc + HexValue(s[i]))
    ELSE Scanned(acc, i)

\* whether the text holds the literal w at position i
Literal(s, i, w) == i + Len(w) - 1 <= Len(s) /\ SubSeq(s, i, i + Len(w) - 1) = w

RECURSIVE scan_once(_, _)
RECURSIVE scanarray(_, _, _)
RECURSIVE scanobject(_, _, _)

\* the items of an array from position i on, after "[" or ","
scanarray(s, i, acc) ==
    LET x == scan_once(s, i)
    IN  IF ~x.ok THEN NoScan
        ELSE CASE At(s, x.next) = "," -> scanarray(s, x.next + 1, Append(acc, x.value))
               [] At(s, x.next) = "]" -> Scanned(PyList(Append(acc, x.value)), x.next + 1)
               [] OTHER -> NoScan

\* the items of an object from position i on, after "{" or ","
scanobject(s, i, acc) ==
    LET k == IF At(s, i) = "\"" THEN scanstring(s, i + 1, << >>) ELSE NoScan
        x == IF k.ok /\ At(s, k.next) = ":" THEN scan_once(s, k.next + 1) ELSE NoScan
    IN  IF ~x.ok THEN NoScan
        ELSE CASE At(s, x.next) = "," ->
                    scanobject(s, x.next + 1, Append(acc, << k.value, x.value >>))
               [] At(s, x.next) = "}" ->
                    Scanned(PyDict(Append(acc, << k.value, x.value >>)), x.next + 1)
               [] OTHER -> NoScan

\* the decoder on the value that starts at position i
scan_once(s, i) ==
    LET c == At(s, i)
    IN  CASE c = "\"" ->
                LET t == scanstring(s, i + 1, << >>)
                IN  IF t.ok THEN Scanned(PyStr(t.value), t.next) ELSE NoScan
          [] c = "{" ->
                IF At(s, i + 1) = "}" THEN Scanned(PyDict(<< >>), i + 2)
                ELSE scanobject(s, i + 1, << >>)
          [] c = "[" ->
                IF At(s, i + 1) = "]" THEN Scanned(PyList(<< >>), i + 2)
                ELSE scanarray(s, i + 1, << >>)
          [] Literal(s, i, << "n", "u", "l", "l" >>) -> Scanned(PyNone, i + 4)
          [] Literal(s, i, << "t", "r", "u", "e" >>) -> Scanned(PyBool(TRUE), i + 4)
          [] Literal(s, i, << "f", "a", "l", "s", "e" >>) -> Scanned(PyBool(FALSE), i + 5)
          [] c = "-" /\ IsDigit(At(s, i + 1)) ->
                LET n == scandigits(s, i + 1, 0) IN Scanned(PyInt(0 - n.value), n.next)
          [] IsDigit(c) -> LET n == scandigits(s, i, 0) IN Scanned(PyInt(n.value), n.next)
          [] OTHER -> NoScan

\* json.loads(message), line 110: one value and nothing after it
json_loads_text(s) ==
    LET x == scan_once(s, 1)
    IN  IF x.ok /\ x.next = Len(s) + 1 THEN Return(x.value)
        ELSE Raise("JSONDecodeError", "Expecting value or extra data")

\* read_message() at the level of bytes, on a channel that holds the bytes in:
\* what it returns or raises, and the bytes it leaves unread
read_message_bytes(in) ==
    LET raw_length == SubSeq(in, 1, IF Len(in) < 4 THEN Len(in) ELSE 4)
        message_length == struct_unpack(raw_length)
        last == IF Len(in) < 4 + message_length THEN Len(in) ELSE 4 + message_length
    IN  IF Len(raw_length) = 0 THEN [ret |-> Return(PyNone), rest |-> in]
        ELSE IF Len(raw_length) < 4
        THEN [ret |-> Raise("struct.error", "unpack requires a buffer of 4 bytes"),
              rest |-> << >>]
        ELSE [ret |-> json_loads_text(utf8_decode(SubSeq(in, 5, last))),
              rest |-> SubSeq(in, last + 1, Len(in))]

\* the objects written to one channel in a run
MaxWrites == 2

\* lines 113-119: send_message(v) writes its frame to the channel
CodecWrite(v) ==
    /\ Len(sent) < MaxWrites
    /\ wire' = send_message_bytes(wire, v)
    /\ sent' = Append(sent, v)
    /\ UNCHANGED <<got, warned, platform, _claude_path, registryVars, osVars, eof, pc, message,
                   response, q, caught, reads, stdout, auxVars>>

\* lines 103-110: read_message() consumes the frame at the head of the channel
CodecRead ==
    /\ wire # << >>
    /\ got' = Append(got, read_message_bytes(wire).ret)
    /\ wire' = read_message_bytes(wire).rest
    /\ UNCHANGED <<sent, warned, platform, _claude_path, registryVars, osVars, eof, pc,
                   message, response, q, caught, reads, stdout, auxVars>>

NextCodec ==
    \/ \E v \in Objects : CodecWrite(v)
    \/ CodecRead

\* the codec does not look at the platform
InitCodec == Init /\ platform = "linux"

SpecCodec == InitCodec /\ [][NextCodec]_vars

(***************************************************************************)
(* The claims.                                                             *)
(***************************************************************************)

\* the main thread is between two iterations of the loop, or has left it
Idle == pc \in {"read", "done"}

\* C1: every request frame the main loop has read and finished handling has
\* exactly one response frame, at the same position of the output as the
\* request has in the input, and that frame carries the request's requestId;
\* a frame still being handled has none yet.
C1_OneResponsePerRequest ==
    /\ Len(stdout) <= Len(reads)
    /\ pc = "read" => Len(stdout) = Len(reads)
    /\ ~Idle => Len(stdout) = Len(reads) - 1
    /\ \A i \in 1..Len(reads) :
          (reads[i].kind = "request" /\ (i < Len(reads) \/ Idle))
             => (i <= Len(stdout) /\ stdout[i] = reads[i].requestId)

\* C1 witness: two requests with different ids were read, the first one a
\* query that ran a subprocess, and each got its response
C1_Witness ==
    /\ pc = "read"
    /\ Len(reads) = 2
    /\ reads[1].kind = "request" /\ reads[2].kind = "request"
    /\ reads[1].requestId = 2 /\ reads[2].requestId = 1
    /\ stdout = << 2, 1 >>
    /\ Len(procs) = 1

\* a dict frame holding a cancel addressed at request id
CancelFrameFor(id) ==
    JsonFrame([t |-> "dict",
               d |-> [action |-> "cancel", requestId |-> id, targetRequestId |-> id]])

\* C2: while a query's subprocess is being waited on, the main loop can read
\* a cancel frame addressed at that query (the browser has frames left to send).
C2_CancelReadableWhileWaiting ==
    (pc = "wait" /\ Len(reads) < MaxFrames)
        => ENABLED MainRead(CancelFrameFor(q.request_id))

\* C3: whoever calls cancel_request(id), its response has success=true and no
\* error; cancelled is false and no process is touched when nothing is tracked
\* under id; cancelled is true when a process is tracked under id, and if that
\* process was running it is killed.
CancelContract(target, resp) ==
    /\ resp.success = TRUE
    /\ "error" \notin DOMAIN resp
    /\ resp.cancelled = (target \in DOMAIN active_processes)
    /\ target \notin DOMAIN active_processes => procs' = procs
    /\ (target \in DOMAIN active_processes /\ procs[active_processes[target]] = "running")
          => (resp.cancelled /\ procs'[active_processes[target]] = "killed")
    /\ active_processes' = active_processes

C4_LoopEndsOnlyAtEof == pc = "done" => eof

\* C5: in every response handle_message returns, success=true implies result
\* is present and error absent; success=false implies error or response present.
ResponseShape(resp) ==
    /\ resp.success => ("result" \in DOMAIN resp /\ "error" \notin DOMAIN resp)
    /\ ~resp.success => ("error" \in DOMAIN resp \/ "response" \in DOMAIN resp)

C5_ResponseShape ==
    /\ pc = "send" => ResponseShape(response)
    /\ apc = "returned" => ResponseShape(aresp)

\* C5 witness: a response to a query whose subprocess exited with a nonzero
\* code: the result of the executor merged into the envelope
C5_Witness ==
    /\ pc = "send"
    /\ ~response.success
    /\ "response" \in DOMAIN response
    /\ "error" \notin DOMAIN response
    /\ Len(procs) > 0
    /\ procs[Len(procs)] = "exit1"

\* C6: once the wait has timed out the subprocess is not running and the
\* result is success=false with the timeout message; when query_claude then
\* returns, the response carries them and the request is no longer tracked.
C6_Timeout ==
    [][ /\ (pc = "wait" /\ pc' = "unreg_lock" /\ q'.timed_out)
            => /\ procs'[q.process] # "running"
               /\ q'.result_data.success = FALSE
               /\ q'.result_data.response = TimeoutText
        /\ (pc = "unreg_held" /\ q.timed_out /\ pc' = "send")
            => /\ response'.success = FALSE
               /\ response'.result = TimeoutText
               /\ procs'[q.process] # "running"
               /\ q.request_id \notin DOMAIN active_processes'
      ]_vars

\* C6 witness: a query that timed out while its subprocess was running has
\* returned
C6_Witness ==
    /\ pc = "send"
    /\ Get(response, "result", "") = TimeoutText
    /\ procs[Len(procs)] = "killed"
    /\ active_processes = EmptyDict

\* a step in which handle_message takes up a query action
QueryStep == IsQuery /\ pc' # "handle"

\* C7: when find_claude finds nothing (the cache stays unset), the query
\* returns at once with success=false and the diagnostic text: no process is
\* spawned, no temporary file created, no registry entry added.
C7_NotFound ==
    [][ (QueryStep /\ _claude_path' = NoneVal)
          => /\ pc' = "send"
             /\ response'.success = FALSE
             /\ response'.response = NotFoundText
             /\ response'.result = NotFoundText
             /\ UNCHANGED <<procs, tempfiles, active_processes, q>>
      ]_vars

\* C7 witness: the response to a query for which no executable was found
C7_Witness ==
    /\ pc = "send"
    /\ Get(response, "response", "") = NotFoundText
    /\ _claude_path = NoneVal
    /\ procs = << >>
    /\ tempfiles = {}

\* a step in which handle_message takes up a ping
PingStep ==
    /\ pc = "handle"
    /\ message.t = "dict"
    /\ ActionOf(message) = "ping"
    /\ pc' # "handle"

\* C8: the response to a ping has result "pong" and success=true whether or
\* not the executable is found, and handling it leaves processes, temporary
\* files, the registry and the query executor alone.
C8_Ping ==
    [][ PingStep
          => /\ pc' = "send"
             /\ response'.result = "pong"
             /\ response'.success = TRUE
             /\ UNCHANGED <<procs, tempfiles, active_processes, process_lock, q>>
      ]_vars

\* C8 witness: a ping answered while no executable can be found
C8_Witness ==
    /\ pc = "send"
    /\ Get(response, "result", "") = "pong"
    /\ Get(response, "claude_path", "") = "NOT FOUND"

\* a step in which handle_message takes up an action it does not recognize
UnknownStep ==
    /\ pc = "handle"
    /\ message.t = "dict"
    /\ ActionOf(message) \notin QueryActions \cup {"cancel", "ping"}
    /\ pc' # "handle"

\* C9: for an action that is not recognized, a missing one included,
\* handle_message returns (it does not raise) success=false and an error that
\* names the action.
C9_UnknownAction ==
    [][ UnknownStep
          => /\ pc' = "send"
             /\ response'.success = FALSE
             /\ response'.error = "Unknown action: " \o Str(ActionOf(message))
             /\ response'.requestId = Get(message.d, "requestId", 0)
      ]_vars

\* C9 witness: the response to a request that has no action
C9_Witness ==
    /\ pc = "send"
    /\ Get(response, "error", "") = "Unknown action: None"

\* a step in which find_claude is called
FindStep == QueryStep \/ PingStep

\* a ping is about to be handled and find_claude can find the executable
PingCanFind ==
    ENABLED (\E env \in Envs : HandlePing(env) /\ _claude_path' # NoneVal)

\* C10: once set, the cached path never changes; a call of find_claude returns
\* the cached path when there is one; a call that finds nothing leaves the
\* cache unset, a call that finds a path sets it to that path, and while the
\* cache is unset a call searches again (it can find the executable).
C10_CacheSetOnce ==
    [][ /\ _claude_path # NoneVal => _claude_path' = _claude_path
        /\ ~FindStep => _claude_path' = _claude_path
        /\ (PingStep /\ _claude_path = NoneVal) => PingCanFind
        /\ (FindStep /\ pc' # "send") => (q'.claude_path = _claude_path' /\ _claude_path' # NoneVal)
        /\ (PingStep /\ _claude_path' = NoneVal) => response'.claude_path = "NOT FOUND"
        /\ (PingStep /\ _claude_path' # NoneVal) => response'.claude_path = _claude_path'
      ]_vars

\* C10 witness: an earlier query found the executable and ran it; a later
\* ping is answered with the cached path
C10_Witness ==
    /\ pc = "send"
    /\ Len(procs) = 1
    /\ Get(response, "result", "") = "pong"
    /\ response.claude_path = _claude_path

\* the response to a query whose content is text is ready to be sent
QueryAnswered ==
    /\ pc = "send"
    /\ message.t = "dict"
    /\ ActionOf(message) \in QueryActions
    /\ ~BadContent(message.d)

\* C11: the answer to a query reports in model_used the supplied model when
\* it is one of sonnet, opus, haiku and sonnet for every other value, and the
\* request is never failed because of the model value (the answer carries no
\* error of the dispatcher).
C11_ModelFallback ==
    QueryAnswered
      => LET model == Get(message.d, "model", "sonnet") IN
           /\ "error" \notin DOMAIN response
           /\ "model_used" \in DOMAIN response
           /\ response.model_used =
                (IF model \in {"sonnet", "opus", "haiku"} THEN model ELSE "sonnet")

\* the frames of a sequence of objects, one after the other
RECURSIVE FramesOf(_)
FramesOf(vs) ==
    IF vs = << >> THEN << >> ELSE send_message_bytes(<< >>, Head(vs)) \o FramesOf(Tail(vs))

\* C12: each frame send_message wrote, a 4-byte length and the compact JSON
\* text, is decoded by read_message to exactly the object that was sent, and
\* the read leaves the channel at the start of the next frame: what is left
\* unread is the frames of the objects sent and not read yet.
C12_RoundTrip ==
    /\ Len(got) <= Len(sent)
    /\ \A i \in 1..Len(got) : ~got[i].raised /\ got[i].value = sent[i]
    /\ wire = FramesOf(SubSeq(sent, Len(got) + 1, Len(sent)))

\* C12 witness: a dict whose key and value need escapes and a text with a
\* non-ASCII character were written back to back and both read
C12_Witness ==
    /\ Len(got) = 2
    /\ wire = << >>
    /\ got[1].value = PyDict(<< << << "U+00E9", "\\" >>, PyStr(<< "\"", "a" >>) >> >>)
    /\ got[2].value = PyStr(<< "\"", "U+00E9" >>)

\* query_claude, called for a suggest_dom_changes request whose html is
\* longer than 20,000 characters, has just written its input for the
\* executable and started it
LongHtmlQuery ==
    /\ pc = "reg_lock"
    /\ q.active
    /\ message.t = "dict"
    /\ ActionOf(message) = "suggest_dom_changes"
    /\ Len(Get(message.d, "html", "")) > 20000

\* the context query_claude was called with: its input is the context, an
\* empty line and the prompt (line 126)
ContextForwarded ==
    SubSeq(q.full_prompt, 1,
           Len(q.full_prompt)
             - Len("\n\nUser request: " \o Get(message.d, "request", "") \o DomInstructions))

\* whether the text s contains the text w
Contains(s, w) == \E i \in 1..(Len(s) - Len(w) + 1) : SubSeq(s, i, i + Len(w) - 1) = w

\* C13 as stated: for an html longer than 20,000 characters the context
\* forwarded to the executor has exactly 20,000 characters.
C13_ContextIs20000Chars ==
    LongHtmlQuery => Len(ContextForwarded) = 20000

\* C13, amended: for an html longer than 20,000 characters the context
\* forwarded is the label "Current HTML structure:" and a newline followed by
\* exactly the first 20,000 characters of the html (20,024 characters in
\* all), and nothing of the html beyond them is in the executor's input.
C13_HtmlTruncated ==
    LongHtmlQuery
      => /\ ContextForwarded
              = "Current HTML structure:\n" \o SubSeq(message.d.html, 1, 20000)
         /\ Len(ContextForwarded) = 20024
         /\ ~Contains(q.full_prompt, HtmlTail)
         /\ q.result_data.prompt_size = Len(q.full_prompt)

\* C13 witness: the subprocess was started on the input made from the long
\* page, whose end lies after the 20,000th character
C13_Witness ==
    /\ LongHtmlQuery
    /\ procs[q.process] = "running"
    /\ SubSeq(message.d.html, 20001, Len(message.d.html)) = HtmlTail

\* the registry maps the running query's requestId to its subprocess
Registered ==
    /\ q.request_id \in DOMAIN active_processes
    /\ active_processes[q.request_id] = q.process

\* C14: the handle is in the registry under the requestId when the wait on
\* the subprocess begins and until the finally clause pops it; every way out
\* of the wait (exit 0, nonzero exit, kill on timeout, kill by a cancel, an
\* exception) leads to that clause; an entry is removed by that one step only,
\* and when query_claude has returned the registry has no entry for the id.
C14_RegisterUnregister ==
    [][ /\ pc' \in {"wait", "unreg_lock", "unreg_held"} => Registered'
        /\ (pc = "reg_held" /\ pc' # pc) => (pc' = "wait" /\ q.request_id \notin DOMAIN active_processes)
        /\ (pc = "wait" /\ pc' # pc) => pc' = "unreg_lock"
        /\ (pc = "unreg_lock" /\ pc' # pc) => pc' = "unreg_held"
        /\ (DOMAIN active_processes \ DOMAIN active_processes' # {})
              => /\ pc = "unreg_held" /\ pc' = "send"
                 /\ DOMAIN active_processes' = DOMAIN active_processes \ {q.request_id}
        /\ (pc = "unreg_held" /\ pc' # pc)
              => /\ pc' = "send"
                 /\ q.request_id \notin DOMAIN active_processes'
                 /\ ~q'.active
      ]_vars

\* C14 witness: a cancel from the second thread killed the subprocess during
\* the wait, and query_claude has returned with the registry empty
C14_Witness ==
    /\ pc = "send"
    /\ Len(procs) = 1
    /\ procs[1] = "killed"
    /\ Get(aresp, "cancelled", FALSE)
    /\ "duration_ms" \in DOMAIN response
    /\ active_processes = EmptyDict

\* where the main thread is while a query_claude call holds a temporary file
InQuery == pc \in {"reg_lock", "reg_held", "wait", "unreg_lock", "unreg_held"}

\* a step in which query_claude returns or raises after find_claude found the
\* executable, that is, after the point where the temporary file is made
QueryExit ==
    \/ pc = "unreg_held" /\ pc' # pc
    \/ QueryStep /\ _claude_path' # NoneVal /\ pc' # "reg_lock"

\* C15: whatever way query_claude is left (exit 0, nonzero exit, timeout, a
\* failure to spawn or to write, an exception), its temporary file is gone
\* unless its deletion failed, a failure that is logged and not raised: a file
\* that exists when no query is running has a logged deletion failure, and the
\* caller gets a result, not an exception.
C15_TempFileDeleted ==
    [][ /\ ~InQuery' => tempfiles' \subseteq warned'
        /\ InQuery' => tempfiles' \subseteq warned' \cup {q'.temp_file}
        /\ QueryExit
             => /\ pc' = "send"
                /\ "error" \notin DOMAIN response'
                /\ response'.success \in BOOLEAN
                /\ response'.result = response'.response
      ]_vars

\* C15 witness: the deletion of the first query's file failed and was logged,
\* the caller got its result; the second query timed out and its file is gone
C15_Witness ==
    /\ pc = "send"
    /\ Len(reads) = 2
    /\ tempfiles = {1}
    /\ warned = {1}
    /\ Len(stdout) = 1
    /\ Len(procs) = 2
    /\ Get(response, "result", "") = TimeoutText

\* the step with which the holder of the lock leaves its "with" block
MainRelease == Register \/ MainCancelBody \/ \E unlinkFails \in BOOLEAN : Unregister(unlinkFails)

\* C16: with cancel_request(id) on one thread and query_claude on the other,
\* the lock is never held during the wait on the subprocess and its holder can
\* always go on to release it, so neither thread blocks for ever; popping the
\* entry is idempotent; no exception escapes (the cancel returns a boolean,
\* the query a result); and once both have finished the entry is absent.
C16_CancelDuringCompletion ==
    [][ /\ pc' = "wait" => process_lock' # "main"
        /\ process_lock' = "main" <=> pc' \in {"reg_held", "unreg_held", "cancel_held"}
        /\ process_lock' = "aux" <=> apc' = "held"
        /\ process_lock = "main" => ENABLED MainRelease
        /\ process_lock = "aux" => ENABLED AuxCancelBody
        /\ (pc = "unreg_held" /\ pc' # pc)
              => /\ Pop(active_processes', q.request_id) = active_processes'
                 /\ pc' = "send" /\ "error" \notin DOMAIN response'
        /\ (apc = "held" /\ apc' # apc)
              => /\ apc' = "returned"
                 /\ aresp'.success = TRUE
                 /\ aresp'.cancelled \in BOOLEAN
                 /\ active_processes' = active_processes
        /\ (apc' = "returned" /\ ~InQuery') => atarget' \notin DOMAIN active_processes'
      ]_vars

\* C16 witness: query_claude's finally clause waits for the lock that
\* cancel_request holds for the same id, the subprocess having exited already
C16_Witness ==
    /\ pc = "unreg_lock"
    /\ apc = "held"
    /\ process_lock = "aux"
    /\ atarget = q.request_id
    /\ procs[q.process] = "exit0"

\* C16, the other order: the cancel for id 1 found no entry because the query
\* for id 1 had finished
C16_WitnessAfter ==
    /\ apc = "returned"
    /\ atarget = 1
    /\ ~Get(aresp, "cancelled", TRUE)
    /\ Len(reads) = 1
    /\ Len(procs) = 1
    /\ pc = "send"

\* C17: the main loop handles one request at a time: a frame is read only
\* when every frame read before has its response written, nothing is read
\* while a request is handled, and each response is appended to the output
\* as the answer to the frame read last, so the responses are in the order
\* in which their requests arrived.
C17_OneAtATime ==
    [][ /\ reads' # reads
             => /\ pc = "read"
                /\ Len(stdout) = Len(reads)
                /\ Len(reads') = Len(reads) + 1
                /\ SubSeq(reads', 1, Len(reads)) = reads
                /\ stdout' = stdout
        /\ stdout' # stdout
             => /\ pc \in {"send", "except"} /\ pc' = "read"
                /\ Len(stdout') = Len(reads)
                /\ SubSeq(stdout', 1, Len(stdout)) = stdout
                /\ reads[Len(reads)].kind = "request"
                      => stdout'[Len(reads)] = reads[Len(reads)].requestId
        /\ \A i \in 1..Len(stdout') :
              reads'[i].kind = "request" => stdout'[i] = reads'[i].requestId
      ]_vars

\* C17 witness: the request with id 2 arrived before the one with id 1, both
\* ran a subprocess, and their responses were written in that order
C17_Witness ==
    /\ Len(reads) = 2
    /\ reads[1].requestId = 2
    /\ reads[2].requestId = 1
    /\ stdout = << 2, 1 >>
    /\ Len(procs) = 2

\* a step of the dispatcher on an action that is not a query: a cancel, on
\* either thread, a ping, an action that is not recognized
NonQueryStep ==
    \/ apc' # apc
    \/ pc \in {"cancel_lock", "cancel_held"} /\ pc' # pc
    \/ pc = "handle" /\ ~IsQuery /\ pc' # pc

\* C18: the keys of the registry change only when query_claude registers its
\* own requestId (which it does with the handle of its own subprocess) or pops
\* it; cancel_request and the dispatcher's other actions leave the registry as
\* it is, so the entry of a request that was cancelled stays, with the same
\* handle, until the query_claude call of that request pops it.
C18_RegistryFrame ==
    [][ /\ active_processes' # active_processes
             => \/ /\ pc = "reg_held" /\ pc' = "wait"
                   /\ active_processes' = Put(active_processes, q.request_id, q.process)
                \/ /\ pc = "unreg_held" /\ pc' = "send"
                   /\ DOMAIN active_processes' = DOMAIN active_processes \ {q.request_id}
                   /\ \A k \in DOMAIN active_processes' :
                         active_processes'[k] = active_processes[k]
        /\ NonQueryStep => active_processes' = active_processes
        /\ (apc = "held" /\ apc' = "returned" /\ aresp'.cancelled)
             => /\ atarget \in DOMAIN active_processes'
                /\ atarget = q.request_id
                /\ InQuery'
      ]_vars

\* C18 witness: the request was cancelled and its subprocess killed; its entry
\* is still in the registry while its query_claude has not reached the pop
C18_Witness ==
    /\ apc = "returned"
    /\ Get(aresp, "cancelled", FALSE)
    /\ pc = "unreg_lock"
    /\ procs[q.process] = "killed"
    /\ ~q.timed_out
    /\ DOMAIN active_processes = {atarget}

\* where the main loop reads a frame or dispatches an action: read_message,
\* the entry of handle_message, and the cancel branch with its call of
\* cancel_request
AtReadOrDispatch == pc \in {"read", "handle", "cancel_lock", "cancel_held"}

\* C19: as main() drives it, the registry never holds more than one entry and
\* the entry it holds is that of the query in progress; it is empty wherever
\* the loop reads a frame or dispatches an action, so every cancel main()
\* dispatches finds nothing, kills nothing and is answered cancelled=false.
C19_RegistryUnderMain ==
    [][ /\ Cardinality(DOMAIN active_processes') <= 1
        /\ active_processes' # EmptyDict => (InQuery' /\ Registered')
        /\ AtReadOrDispatch => active_processes = EmptyDict
        /\ AtReadOrDispatch' => active_processes' = EmptyDict
        /\ (pc = "cancel_held" /\ pc' # pc)
             => /\ response'.cancelled = FALSE
                /\ response'.result = "No active request found"
                /\ response'.success = TRUE
                /\ procs' = procs
      ]_vars

\* C19 witness: main() answers a cancel aimed at the query it ran just before,
\* whose subprocess had exited with 0
C19_Witness ==
    /\ pc = "send"
    /\ ActionOf(message) = "cancel"
    /\ Len(reads) = 2
    /\ reads[1].requestId = message.d.targetRequestId
    /\ Len(procs) = 1
    /\ procs[1] = "exit0"
    /\ response.cancelled = FALSE

====
